---- MODULE Spec2Model ----
(***************************************************************************)
(* State machine of the WEState store (WEState.ts): the observable fields  *)
(* of the world-editor UI state, one action per public operation or bound  *)
(* event handler, and the effects each handler has on its collaborators    *)
(* (game client, API transport, shell, event emitters, input controller).  *)
(***************************************************************************)
EXTENDS Integers, Sequences, FiniteSets, TLC

VARIABLES
  \* fields of WEState
  inputController, ready, mode, editorSelect, editorMode, editorLocal,
  selection, map, mapEntry, introSeen, forceShowIntro,
  \* collaborators
  uiOnly,                     \* __DEBUG_MODE_TOGGLES__.WORLD_EDITOR_UI_ONLY
  archetypesCollectionReady,  \* GameState.archetypesCollectionReady
  personality,                \* ShellState.personality
  pendingLoads,               \* mapLoaded messages the backend has yet to deliver
  \* observation of the last handler that ran
  lastCall,                   \* <<handler name, argument>>
  out,                        \* the calls it made on its collaborators, in order
  threw,                      \* whether it ended in a TypeError
  \* what the collaborators have received so far
  gameClientSelection,        \* payload of the last 'we:selection' sent
  modeMsgs,                   \* 'we:enterPlaytestMode' / 'we:exitPlaytestMode' sent
  ctrlCalls,                  \* enterFullControl / exitFullControl calls made
  hostControls,               \* last setWorldEditorControls arguments
  deletedIds,                 \* ids whose additionDeleted event has been processed
  readyEventSinceClose,       \* a 'we:ready' was received since the last closeMap
  modeCallWithoutController,  \* a mode switch was invoked with no controller
  lastIntroCall               \* the last of openIntro / closeIntro to have run

stateVars == <<inputController, ready, mode, editorSelect, editorMode, editorLocal,
               selection, map, mapEntry, introSeen, forceShowIntro>>
envVars == <<uiOnly, archetypesCollectionReady, personality, pendingLoads>>
obsVars == <<lastCall, out, threw>>
logVars == <<gameClientSelection, modeMsgs, ctrlCalls, hostControls, deletedIds,
             readyEventSinceClose, modeCallWithoutController, lastIntroCall>>
vars == <<stateVars, envVars, obsVars, logVars>>

----------------------------------------------------------------------------
\* Bounds of the model

MaxModeMsgs == 4   \* mode messages recorded before the mode switches stop
MaxHandled == 2    \* host requests one map state handles before they stop

----------------------------------------------------------------------------
\* Values

EDITOR == "EDITOR"
PLAYTEST == "PLAYTEST"
WEMode == {EDITOR, PLAYTEST}

TRANSLATE == "TRANSLATE"
ROTATE == "ROTATE"
SCALE == "SCALE"
EditorMode == {TRANSLATE, ROTATE, SCALE}

NONE == "NONE"
ADDITION == "ADDITION"
PATCH == "PATCH"
WESelectionType == {NONE, ADDITION, PATCH}

AdditionIds == {"a1", "a2"}
PatchKeys == {1, 2}

SelectionNone == [type |-> NONE]
SelectionAddition(id) == [type |-> ADDITION, id |-> id]
SelectionPatch(mapdata, entity) == [type |-> PATCH, mapdata |-> mapdata, entity |-> entity]

\* the selections the UI and the host pass around
WESelection ==
  {SelectionNone}
    \cup {SelectionAddition(id) : id \in AdditionIds}
    \cup {SelectionPatch(m, e) : m \in PatchKeys, e \in PatchKeys}

\* strings are sequences of characters
FXWORLD_FILE_EXT == <<".", "f", "x", "w", "o", "r", "l", "d">>

EntryA == [name |-> <<"a">> \o FXWORLD_FILE_EXT, path |-> "/maps/a.fxworld"]
EntryB == [name |-> <<"b">> \o FXWORLD_FILE_EXT \o <<".", "b", "a", "k">>, path |-> "/maps/b.fxworld.bak"]
FilesystemEntry == {EntryA, EntryB}
NoEntry == [name |-> <<>>, path |-> ""]

THEIA == "THEIA"
WORLD_EDITOR == "WORLD_EDITOR"

Requests == {"r1"}

\* inputController: undefined, or an InputController
NoController == [present |-> FALSE, fullControl |-> FALSE]
\* map: null, or a WEMapState
NoMap == [loaded |-> FALSE, path |-> "", handled |-> 0]

Effect(call, data) == [call |-> call, data |-> data]
NoArg == <<>>

----------------------------------------------------------------------------
\* Pure helpers

\* String.prototype.replace(needle, ''): the first occurrence of needle removed
FirstIndexOf(s, needle) ==
  LET hits == {i \in 1..(Len(s) - Len(needle) + 1) :
                 SubSeq(s, i, i + Len(needle) - 1) = needle}
  IN IF hits = {} THEN 0 ELSE CHOOSE i \in hits : \A j \in hits : i <= j

replace(s, needle) ==
  LET i == FirstIndexOf(s, needle)
  IN IF i = 0 THEN s
     ELSE SubSeq(s, 1, i - 1) \o SubSeq(s, i + Len(needle), Len(s))

\* get mapName()
mapName ==
  IF mapEntry # NoEntry THEN replace(mapEntry.name, FXWORLD_FILE_EXT) ELSE <<>>

\* a JavaScript number: NaN, or an integer
NaN == [nan |-> TRUE, val |-> 0]
Num(n) == [nan |-> FALSE, val |-> n]
\* x === y on numbers: NaN equals nothing
StrictEquals(x, y) == ~x.nan /\ ~y.nan /\ x.val = y.val

Digits == {"0", "1", "2", "3", "4", "5", "6", "7", "8", "9"}
DigitValue(c) == CHOOSE n \in 0..9 : ToString(n) = c

RECURSIVE SkipSpaces(_)
SkipSpaces(s) ==
  IF s # <<>> /\ Head(s) = " " THEN SkipSpaces(Tail(s)) ELSE s

RECURSIVE ReadDigits(_, _)
ReadDigits(s, acc) ==
  IF s # <<>> /\ Head(s) \in Digits
  THEN ReadDigits(Tail(s), 10 * acc + DigitValue(Head(s)))
  ELSE acc

\* parseInt(s, 10): leading white space skipped, an optional sign, then the
\* longest run of digits; NaN when there is no digit
parseInt(s) ==
  LET t == SkipSpaces(s)
      signed == t # <<>> /\ Head(t) \in {"-", "+"}
      u == IF signed THEN Tail(t) ELSE t
      n == ReadDigits(u, 0)
  IN IF u = <<>> \/ Head(u) \notin Digits THEN NaN
     ELSE IF signed /\ Head(t) = "-" THEN Num(0 - n) ELSE Num(n)

\* the strings the UI passes to isPatchSelected
QueryStrings ==
  {<<"1">>, <<"2">>, <<"1", "2">>, <<"1", "x">>, <<" ", "2">>, <<"0", "1">>,
   <<"-", "1">>, <<"x">>, <<>>}

\* isAdditionSelected(additionId)
isAdditionSelected(additionId) ==
  IF selection.type # ADDITION THEN FALSE
  ELSE selection.id = additionId

\* isPatchSelected comparing the mapdata alone
isPatchSelected_mapdataOnly(mapdata, entity) ==
  IF selection.type # PATCH THEN FALSE
  ELSE StrictEquals(Num(selection.mapdata), parseInt(mapdata))

\* isPatchSelected(mapdata, entity)
isPatchSelected(mapdata, entity) ==
  IF selection.type # PATCH THEN FALSE
  ELSE StrictEquals(Num(selection.mapdata), parseInt(mapdata))
         /\ StrictEquals(Num(selection.entity), parseInt(entity))

\* JSON.stringify(selection), as the sequence of its keys and values
JSONstringify(s) ==
  CASE s.type = NONE -> <<"type", NONE>>
    [] s.type = ADDITION -> <<"type", ADDITION, "id", s.id>>
    [] s.type = PATCH ->
         <<"type", PATCH, "mapdata", ToString(s.mapdata), "entity", ToString(s.entity)>>

\* the game client's reading of a 'we:selection' payload
JSONparse(p) ==
  CASE p[2] = NONE -> SelectionNone
    [] p[2] = ADDITION -> SelectionAddition(p[4])
    [] p[2] = PATCH ->
         SelectionPatch(CHOOSE n \in PatchKeys : ToString(n) = p[4],
                        CHOOSE n \in PatchKeys : ToString(n) = p[6])

\* get showIntro()
showIntro ==
  IF ~ready THEN FALSE
  ELSE IF ~map.loaded THEN FALSE
  ELSE IF ~introSeen THEN TRUE
  ELSE forceShowIntro

----------------------------------------------------------------------------
\* The InputController and WEMapState objects the store holds

\* new InputController(container, setEditorSelect)
NewInputController == [present |-> TRUE, fullControl |-> FALSE]
\* InputController.enterFullControl()
enterFullControl(c) == [c EXCEPT !.fullControl = TRUE]
\* InputController.exitFullControl()
exitFullControl(c) == [c EXCEPT !.fullControl = FALSE]

\* new WEMapState(map), for the map the backend loaded from path
NewWEMapState(path) == [loaded |-> TRUE, path |-> path, handled |-> 0]
\* WEMapState.handle*Request(request)
handleRequest(m) == [m EXCEPT !.handled = @ + 1]

----------------------------------------------------------------------------
\* What the collaborators keep of the calls a handler made

GameClientEvent(name, payload) == Effect("sendGameClientEvent", <<name, payload>>)

RECURSIVE LastSelectionSent(_, _)
LastSelectionSent(effects, old) ==
  IF effects = <<>> THEN old
  ELSE LET e == effects[Len(effects)]
       IN IF e.call = "sendGameClientEvent" /\ e.data[1] = "we:selection"
          THEN e.data[2]
          ELSE LastSelectionSent(SubSeq(effects, 1, Len(effects) - 1), old)

IsModeMsg(e) ==
  e.call = "sendGameClientEvent"
    /\ e.data[1] \in {"we:enterPlaytestMode", "we:exitPlaytestMode"}
ModeMsgsOf(effects) ==
  LET f == SelectSeq(effects, IsModeMsg)
  IN [i \in 1..Len(f) |-> f[i].data[1]]

IsCtrlCall(e) ==
  e.call \in {"inputController.enterFullControl", "inputController.exitFullControl"}
CtrlCallsOf(effects) ==
  LET f == SelectSeq(effects, IsCtrlCall)
  IN [i \in 1..Len(f) |-> f[i].call]

IsControlsCall(e) == e.call = "setWorldEditorControls"
LastControlsSent(effects, old) ==
  LET f == SelectSeq(effects, IsControlsCall)
  IN IF f = <<>> THEN old ELSE f[Len(f)].data

\* every handler ends by handing its calls to the collaborators
Emit(call, effects, raised) ==
  /\ lastCall' = call
  /\ out' = effects
  /\ threw' = raised
  /\ gameClientSelection' = LastSelectionSent(effects, gameClientSelection)
  /\ modeMsgs' = modeMsgs \o ModeMsgsOf(effects)
  /\ ctrlCalls' = ctrlCalls \o CtrlCallsOf(effects)
  /\ hostControls' = LastControlsSent(effects, hostControls)

----------------------------------------------------------------------------
\* The handlers, as what they assign and what they call

\* updateSelection that also reports the selection to the game client
updateSelection_echo(s) ==
  [selection |-> s,
   effects |-> <<Effect("Events.selectionChanged.emit", s),
                 GameClientEvent("we:selection", JSONstringify(s))>>]

\* private updateSelection = (selection) => ...
updateSelection(s) ==
  [selection |-> s, effects |-> <<Effect("Events.selectionChanged.emit", s)>>]

\* setEditorSelection that serializes this.selection before assigning it
setEditorSelection_stale(s) ==
  LET u == updateSelection(s)
  IN [selection |-> u.selection,
      effects |-> u.effects
                    \o <<GameClientEvent("we:selection", JSONstringify(selection))>>]

\* readonly setEditorSelection = (selection) => ...
setEditorSelection(s) ==
  LET u == updateSelection(s)
  IN [selection |-> u.selection,
      effects |-> u.effects \o <<GameClientEvent("we:selection", JSONstringify(s))>>]

\* readonly clearEditorSelection = () => ...
clearEditorSelection == setEditorSelection(SelectionNone)

\* the additionDeleted listener clearing any selected addition
additionDeleted_anyId(id) ==
  IF selection.type = ADDITION
  THEN clearEditorSelection
  ELSE [selection |-> selection, effects |-> <<>>]

\* Events.additionDeleted.addListener(({ id }) => ...)
additionDeleted(id) ==
  IF selection.type = ADDITION /\ selection.id = id
  THEN clearEditorSelection
  ELSE [selection |-> selection, effects |-> <<>>]

\* enterPlaytestMode without the early return
enterPlaytestMode_unguarded ==
  LET sent == <<GameClientEvent("we:enterPlaytestMode", <<>>)>>
  IN IF inputController.present
     THEN [mode |-> PLAYTEST,
           inputController |-> enterFullControl(inputController),
           effects |-> sent \o <<Effect("inputController.enterFullControl", NoArg)>>,
           threw |-> FALSE]
     ELSE [mode |-> PLAYTEST, inputController |-> inputController,
           effects |-> sent, threw |-> TRUE]

\* readonly enterPlaytestMode = () => ...
enterPlaytestMode ==
  IF mode = PLAYTEST
  THEN [mode |-> mode, inputController |-> inputController,
        effects |-> <<>>, threw |-> FALSE]
  ELSE LET sent == <<GameClientEvent("we:enterPlaytestMode", <<>>)>>
       IN IF inputController.present
          THEN [mode |-> PLAYTEST,
                inputController |-> enterFullControl(inputController),
                effects |-> sent \o <<Effect("inputController.enterFullControl", NoArg)>>,
                threw |-> FALSE]
          \* this.inputController is undefined: the call on it raises a
          \* TypeError, after the message is sent and mode is assigned
          ELSE [mode |-> PLAYTEST, inputController |-> inputController,
                effects |-> sent, threw |-> TRUE]

\* readonly enterEditorMode = (relative = false) => ...
enterEditorMode(relative) ==
  IF mode = EDITOR
  THEN [mode |-> mode, inputController |-> inputController,
        effects |-> <<>>, threw |-> FALSE]
  ELSE LET sent == <<GameClientEvent("we:exitPlaytestMode",
                                     IF relative THEN <<"true">> ELSE <<>>)>>
       IN IF inputController.present
          THEN [mode |-> EDITOR,
                inputController |-> exitFullControl(inputController),
                effects |-> sent \o <<Effect("inputController.exitFullControl", NoArg)>>,
                threw |-> FALSE]
          ELSE [mode |-> EDITOR, inputController |-> inputController,
                effects |-> sent, threw |-> TRUE]

\* createInputController(container)
createInputController ==
  [inputController |-> NewInputController,
   effects |-> <<Effect("inputController.onEscapeFullControl", "enterEditorMode"),
                 Effect("inputController.onCameraMovementBaseMultiplierChange", NoArg)>>]

\* destroyInputController that leaves the reference to the destroyed controller
destroyInputController_keepsReference ==
  LET u == updateSelection(SelectionNone)
  IN IF inputController.present
     THEN [selection |-> u.selection, inputController |-> inputController,
           effects |-> u.effects \o <<Effect("inputController.destroy", NoArg)>>,
           threw |-> FALSE]
     ELSE [selection |-> u.selection, inputController |-> inputController,
           effects |-> u.effects, threw |-> FALSE]

\* destroyInputController()
destroyInputController ==
  LET u == updateSelection(SelectionNone)
  IN IF inputController.present
     THEN [selection |-> u.selection, inputController |-> NoController,
           effects |-> u.effects \o <<Effect("inputController.destroy", NoArg)>>,
           threw |-> FALSE]
     ELSE [selection |-> u.selection, inputController |-> inputController,
           effects |-> u.effects, threw |-> FALSE]

\* openMap = (entry) => ...
openMap(entry) ==
  [map |-> NoMap, mapEntry |-> entry, ready |-> ready,
   personality |-> WORLD_EDITOR,
   effects |-> <<Effect("WEHistory.reset", NoArg),
                 Effect("sendApiMessage", <<"worldEditorApi.start", entry.path>>),
                 Effect("ShellState.setPersonality", WORLD_EDITOR)>>]

\* closeMap that leaves the entry in place
closeMap_keepsEntry ==
  [map |-> NoMap, mapEntry |-> mapEntry,
   ready |-> IF uiOnly = FALSE THEN FALSE ELSE ready,
   personality |-> THEIA,
   effects |-> <<Effect("sendApiMessage", <<"worldEditorApi.stop">>),
                 Effect("ShellState.setPersonality", THEIA)>>]

\* closeMap = () => ...
closeMap ==
  [map |-> NoMap, mapEntry |-> NoEntry,
   ready |-> IF uiOnly = FALSE THEN FALSE ELSE ready,
   personality |-> THEIA,
   effects |-> <<Effect("sendApiMessage", <<"worldEditorApi.stop">>),
                 Effect("ShellState.setPersonality", THEIA)>>]

\* onApiMessage(worldEditorApi.mapLoaded, (map) => ...)
mapLoaded(path) == NewWEMapState(path)

\* the 'we:ready' handler refreshing the archetypes collection every time
weReady_alwaysRefresh ==
  [ready |-> TRUE,
   effects |-> <<Effect("GameState.refreshArchetypesCollection", NoArg)>>]

\* onWindowEvent('we:ready', () => ...)
weReady ==
  [ready |-> TRUE,
   effects |-> IF ~archetypesCollectionReady
               THEN <<Effect("GameState.refreshArchetypesCollection", NoArg)>>
               ELSE <<>>]

\* onWindowEvent('we:createPatch' | 'we:setAddition' | 'we:applyPatchChange' |
\*               'we:applyAdditionChange', (request) => this.map?.handle...(request))
MapRequests ==
  [event : {"we:createPatch", "we:setAddition", "we:applyPatchChange",
            "we:applyAdditionChange"},
   request : Requests]
MapHandlerOf(event) ==
  CASE event = "we:createPatch" -> "map.handleCreatePatchRequest"
    [] event = "we:setAddition" -> "map.handleSetAdditionRequest"
    [] event = "we:applyPatchChange" -> "map.handleApplyPatchChangeRequest"
    [] event = "we:applyAdditionChange" -> "map.handleApplyAdditionChangeRequest"
\* a request handler calling this.map.handle...(request) with no null check
mapRequest_unchecked(rq) ==
  IF map.loaded
  THEN [map |-> handleRequest(map),
        effects |-> <<Effect(MapHandlerOf(rq.event), <<map.path, rq.request>>)>>,
        threw |-> FALSE]
  ELSE [map |-> map, effects |-> <<>>, threw |-> TRUE]

mapRequest(rq) ==
  IF map.loaded
  THEN [map |-> handleRequest(map),
        effects |-> <<Effect(MapHandlerOf(rq.event), <<map.path, rq.request>>)>>,
        threw |-> FALSE]
  ELSE [map |-> map, effects |-> <<>>, threw |-> FALSE]

\* private updateEditorControls()
updateEditorControls(select, emode, local) ==
  <<Effect("setWorldEditorControls", <<select, emode, local>>)>>

\* enableTranslation / enableRotation / enableScaling
enableMode(m) ==
  [editorSelect |-> editorSelect, editorMode |-> m, editorLocal |-> editorLocal,
   effects |-> updateEditorControls(editorSelect, m, editorLocal)]
enableTranslation == enableMode(TRANSLATE)
enableRotation == enableMode(ROTATE)
enableScaling == enableMode(SCALE)

\* toggleEditorLocal that pushes the controls before flipping the field
toggleEditorLocal_pushesFirst ==
  [editorSelect |-> editorSelect, editorMode |-> editorMode, editorLocal |-> ~editorLocal,
   effects |-> updateEditorControls(editorSelect, editorMode, editorLocal)]

\* toggleEditorLocal = () => ...
toggleEditorLocal ==
  [editorSelect |-> editorSelect, editorMode |-> editorMode, editorLocal |-> ~editorLocal,
   effects |-> updateEditorControls(editorSelect, editorMode, ~editorLocal)]

\* setEditorSelect = (select) => ...
setEditorSelect(select) ==
  [editorSelect |-> select, editorMode |-> editorMode, editorLocal |-> editorLocal,
   effects |-> <<Effect("Events.gizmoSelectChanged.emit", select)>>
                 \o updateEditorControls(select, editorMode, editorLocal)]

\* readonly openIntro = () => ...
openIntro == [introSeen |-> introSeen, forceShowIntro |-> TRUE]

\* closeIntro that leaves forceShowIntro set
closeIntro_keepsForce ==
  [introSeen |-> IF ~introSeen THEN TRUE ELSE introSeen, forceShowIntro |-> forceShowIntro]

\* readonly closeIntro = () => ...
closeIntro ==
  [introSeen |-> IF ~introSeen THEN TRUE ELSE introSeen, forceShowIntro |-> FALSE]

----------------------------------------------------------------------------
\* The state after construction

Init ==
  /\ uiOnly \in BOOLEAN
  /\ inputController = NoController
  /\ ready = uiOnly
  /\ mode = EDITOR
  /\ editorSelect = FALSE
  /\ editorMode = TRANSLATE
  /\ editorLocal = FALSE
  /\ selection = SelectionNone
  /\ map = NoMap
  /\ mapEntry = NoEntry
  /\ introSeen \in BOOLEAN
  /\ forceShowIntro = FALSE
  /\ archetypesCollectionReady = FALSE
  /\ personality = THEIA
  /\ pendingLoads = {}
  /\ lastCall = <<"constructor", NoArg>>
  /\ out = <<>>
  /\ threw = FALSE
  /\ gameClientSelection = <<>>
  /\ modeMsgs = <<>>
  /\ ctrlCalls = <<>>
  /\ hostControls = <<>>
  /\ deletedIds = {}
  /\ readyEventSinceClose = FALSE
  /\ modeCallWithoutController = FALSE
  /\ lastIntroCall = "none"

----------------------------------------------------------------------------
\* One action per operation and per bound event

ctrlFields == <<inputController, mode>>
controlFields == <<editorSelect, editorMode, editorLocal>>
mapFields == <<ready, map, mapEntry>>
introFields == <<introSeen, forceShowIntro>>
historyVars == <<deletedIds, readyEventSinceClose, modeCallWithoutController, lastIntroCall>>

SetEditorSelection(s) ==
  LET r == setEditorSelection(s)
  IN /\ selection' = r.selection
     /\ Emit(<<"setEditorSelection", s>>, r.effects, FALSE)
     /\ UNCHANGED <<ctrlFields, controlFields, mapFields, introFields, envVars, historyVars>>

ClearEditorSelection ==
  LET r == clearEditorSelection
  IN /\ selection' = r.selection
     /\ Emit(<<"clearEditorSelection", NoArg>>, r.effects, FALSE)
     /\ UNCHANGED <<ctrlFields, controlFields, mapFields, introFields, envVars, historyVars>>

\* the host emits 'we:selection'
WindowEventSelection(s) ==
  LET r == updateSelection(s)
  IN /\ selection' = r.selection
     /\ Emit(<<"we:selection", s>>, r.effects, FALSE)
     /\ UNCHANGED <<ctrlFields, controlFields, mapFields, introFields, envVars, historyVars>>

AdditionDeleted(id) ==
  LET r == additionDeleted(id)
  IN /\ selection' = r.selection
     /\ deletedIds' = deletedIds \cup {id}
     /\ Emit(<<"additionDeleted", id>>, r.effects, FALSE)
     /\ UNCHANGED <<ctrlFields, controlFields, mapFields, introFields, envVars,
                    readyEventSinceClose, modeCallWithoutController, lastIntroCall>>

ModeSwitch(call, r) ==
  /\ Len(modeMsgs) + Len(ModeMsgsOf(r.effects)) <= MaxModeMsgs
  /\ mode' = r.mode
  /\ inputController' = r.inputController
  /\ modeCallWithoutController' = (modeCallWithoutController \/ ~inputController.present)
  /\ Emit(call, r.effects, r.threw)
  /\ UNCHANGED <<selection, controlFields, mapFields, introFields, envVars,
                 deletedIds, readyEventSinceClose, lastIntroCall>>

EnterPlaytestMode == ModeSwitch(<<"enterPlaytestMode", NoArg>>, enterPlaytestMode)

EnterEditorMode(relative) ==
  ModeSwitch(<<"enterEditorMode", relative>>, enterEditorMode(relative))

\* the controller in full control sees the escape key and calls back
EscapeFullControl(relative) ==
  /\ inputController.present
  /\ inputController.fullControl
  /\ ModeSwitch(<<"onEscapeFullControl", relative>>, enterEditorMode(relative))

CreateInputController ==
  LET r == createInputController
  IN /\ inputController' = r.inputController
     /\ Emit(<<"createInputController", NoArg>>, r.effects, FALSE)
     /\ UNCHANGED <<mode, selection, controlFields, mapFields, introFields, envVars,
                    historyVars>>

DestroyInputController ==
  LET r == destroyInputController
  IN /\ inputController' = r.inputController
     /\ selection' = r.selection
     /\ Emit(<<"destroyInputController", NoArg>>, r.effects, r.threw)
     /\ UNCHANGED <<mode, controlFields, mapFields, introFields, envVars, historyVars>>

OpenMap(entry) ==
  LET r == openMap(entry)
  IN /\ map' = r.map
     /\ mapEntry' = r.mapEntry
     /\ ready' = r.ready
     /\ personality' = r.personality
     \* the backend answers worldEditorApi.start with a mapLoaded message
     /\ pendingLoads' = pendingLoads \cup {entry.path}
     /\ Emit(<<"openMap", entry>>, r.effects, FALSE)
     /\ UNCHANGED <<ctrlFields, selection, controlFields, introFields, uiOnly,
                    archetypesCollectionReady, historyVars>>

CloseMap ==
  LET r == closeMap
  IN /\ map' = r.map
     /\ mapEntry' = r.mapEntry
     /\ ready' = r.ready
     /\ personality' = r.personality
     /\ readyEventSinceClose' = FALSE
     /\ Emit(<<"closeMap", NoArg>>, r.effects, FALSE)
     /\ UNCHANGED <<ctrlFields, selection, controlFields, introFields, uiOnly,
                    archetypesCollectionReady, pendingLoads, deletedIds,
                    modeCallWithoutController, lastIntroCall>>

\* a mapLoaded message of the backend is delivered
MapLoaded(path) ==
  /\ path \in pendingLoads
  /\ pendingLoads' = pendingLoads \ {path}
  /\ map' = mapLoaded(path)
  /\ Emit(<<"mapLoaded", path>>, <<>>, FALSE)
  /\ UNCHANGED <<ctrlFields, selection, controlFields, ready, mapEntry, introFields,
                 uiOnly, archetypesCollectionReady, personality, historyVars>>

\* the host emits 'we:ready'
WindowEventReady ==
  LET r == weReady
  IN /\ ready' = r.ready
     /\ readyEventSinceClose' = TRUE
     /\ Emit(<<"we:ready", NoArg>>, r.effects, FALSE)
     /\ UNCHANGED <<ctrlFields, selection, controlFields, map, mapEntry, introFields,
                    envVars, deletedIds, modeCallWithoutController, lastIntroCall>>

\* GameState finishes loading the archetypes collection
ArchetypesCollectionLoaded ==
  /\ ~archetypesCollectionReady
  /\ archetypesCollectionReady' = TRUE
  /\ Emit(<<"archetypesCollectionLoaded", NoArg>>, <<>>, FALSE)
  /\ UNCHANGED <<stateVars, uiOnly, personality, pendingLoads, historyVars>>

\* the host emits one of the four map requests
WindowEventMapRequest(rq) ==
  LET r == mapRequest(rq)
  IN /\ map.loaded => map.handled < MaxHandled
     /\ map' = r.map
     /\ Emit(<<rq.event, rq.request>>, r.effects, r.threw)
     /\ UNCHANGED <<ctrlFields, selection, controlFields, ready, mapEntry, introFields,
                    envVars, historyVars>>

Controls(call, r) ==
  /\ editorSelect' = r.editorSelect
  /\ editorMode' = r.editorMode
  /\ editorLocal' = r.editorLocal
  /\ Emit(call, r.effects, FALSE)
  /\ UNCHANGED <<ctrlFields, selection, mapFields, introFields, envVars, historyVars>>

EnableTranslation == Controls(<<"enableTranslation", NoArg>>, enableTranslation)
EnableRotation == Controls(<<"enableRotation", NoArg>>, enableRotation)
EnableScaling == Controls(<<"enableScaling", NoArg>>, enableScaling)
ToggleEditorLocal == Controls(<<"toggleEditorLocal", NoArg>>, toggleEditorLocal)
SetEditorSelect(select) == Controls(<<"setEditorSelect", select>>, setEditorSelect(select))

Intro(call, r) ==
  /\ introSeen' = r.introSeen
  /\ forceShowIntro' = r.forceShowIntro
  /\ lastIntroCall' = call[1]
  /\ Emit(call, <<>>, FALSE)
  /\ UNCHANGED <<ctrlFields, selection, controlFields, mapFields, envVars,
                 deletedIds, readyEventSinceClose, modeCallWithoutController>>

OpenIntro == Intro(<<"openIntro", NoArg>>, openIntro)
CloseIntro == Intro(<<"closeIntro", NoArg>>, closeIntro)

----------------------------------------------------------------------------
\* Specifications

\* the input controller's lifecycle and the mode switches
NextMode ==
  \/ CreateInputController
  \/ DestroyInputController
  \/ EnterPlaytestMode
  \/ \E relative \in BOOLEAN : EnterEditorMode(relative)
  \/ \E relative \in BOOLEAN : EscapeFullControl(relative)

SpecMode == Init /\ [][NextMode]_vars

\* the selection, set by the UI, by the host, by a deletion and by the
\* input controller's teardown
NextSelection ==
  \/ \E s \in WESelection : SetEditorSelection(s)
  \/ ClearEditorSelection
  \/ \E s \in WESelection : WindowEventSelection(s)
  \/ \E id \in AdditionIds : AdditionDeleted(id)
  \/ CreateInputController
  \/ DestroyInputController

SpecSelection == Init /\ [][NextSelection]_vars

\* the input controller's teardown among mode switches and selections
NextTeardown ==
  \/ CreateInputController
  \/ DestroyInputController
  \/ EnterPlaytestMode
  \/ \E relative \in BOOLEAN : EnterEditorMode(relative)
  \/ \E s \in WESelection : SetEditorSelection(s)
  \/ \E s \in WESelection : WindowEventSelection(s)

SpecTeardown == Init /\ [][NextTeardown]_vars

\* the editor controls
NextControls ==
  \/ EnableTranslation
  \/ EnableRotation
  \/ EnableScaling
  \/ ToggleEditorLocal
  \/ \E select \in BOOLEAN : SetEditorSelect(select)
  \/ CreateInputController
  \/ EnterPlaytestMode
  \/ ClearEditorSelection

SpecControls == Init /\ [][NextControls]_vars

\* the map's lifecycle, the host's events and the intro
NextMap ==
  \/ \E entry \in FilesystemEntry : OpenMap(entry)
  \/ CloseMap
  \/ \E path \in {e.path : e \in FilesystemEntry} : MapLoaded(path)
  \/ WindowEventReady
  \/ ArchetypesCollectionLoaded
  \/ \E rq \in MapRequests : WindowEventMapRequest(rq)
  \/ OpenIntro
  \/ CloseIntro

SpecMap == Init /\ [][NextMap]_vars

\* the map's lifecycle among changes of the mode, the selection and the controls
NextFrame ==
  \/ \E entry \in FilesystemEntry : OpenMap(entry)
  \/ CloseMap
  \/ \E path \in {e.path : e \in FilesystemEntry} : MapLoaded(path)
  \/ CreateInputController
  \/ EnterPlaytestMode
  \/ \E s \in WESelection : WindowEventSelection(s)
  \/ EnableRotation
  \/ ToggleEditorLocal
  \/ \E select \in BOOLEAN : SetEditorSelect(select)

SpecFrame == Init /\ [][NextFrame]_vars

\* every operation
Next ==
  \/ NextMode
  \/ NextSelection
  \/ NextMap
  \/ EnableTranslation
  \/ EnableRotation
  \/ EnableScaling
  \/ ToggleEditorLocal
  \/ \E select \in BOOLEAN : SetEditorSelect(select)

Spec == Init /\ [][Next]_vars

----------------------------------------------------------------------------
\* Properties

IsGameClientEvent(e) == e.call = "sendGameClientEvent"

\* C1: whenever an input controller exists, mode is PLAYTEST exactly when the
\* controller is in full control, and EDITOR exactly when it is not.
C1_ModeIsFullControl ==
  inputController.present =>
    /\ (mode = PLAYTEST) <=> inputController.fullControl
    /\ (mode = EDITOR) <=> ~inputController.fullControl

\* C2: the selection is one of the three variants and the two queries follow
\* its tag: isAdditionSelected(id) iff ADDITION with that id, isPatchSelected
\* iff PATCH with mapdata and entity equal to the parsed arguments; never both
\* true, both false when the type is NONE.
C2_QueriesFollowTag ==
  /\ selection \in WESelection
  /\ \A id \in AdditionIds \cup {"a3"} :
       isAdditionSelected(id) <=> (selection.type = ADDITION /\ selection.id = id)
  /\ \A m \in QueryStrings, e \in QueryStrings :
       /\ isPatchSelected(m, e) <=>
            /\ selection.type = PATCH
            /\ parseInt(m) = Num(selection.mapdata)
            /\ parseInt(e) = Num(selection.entity)
       /\ \A id \in AdditionIds : ~(isAdditionSelected(id) /\ isPatchSelected(m, e))
       /\ selection.type = NONE => ~isPatchSelected(m, e)
  /\ selection.type = NONE => \A id \in AdditionIds : ~isAdditionSelected(id)

\* a patch is selected and found through arguments parseInt reads leniently
C2_Witness ==
  /\ selection = SelectionPatch(2, 1)
  /\ isPatchSelected(<<" ", "2">>, <<"1", "x">>)
  /\ ~isPatchSelected(<<"2">>, <<"x">>)
  /\ ~isAdditionSelected("a1")

\* C3: setEditorSelection(s), and clearEditorSelection with s = NONE, sets the
\* local selection to s, emits selectionChanged(s) once and then sends one
\* 'we:selection' message carrying s, so that the game client's selection is
\* the local one after the call.
C3_SelectionCall ==
  IF lastCall[1] = "setEditorSelection" THEN lastCall[2]
  ELSE SelectionNone

C3_SetSelectionSendsOnce ==
  lastCall[1] \in {"setEditorSelection", "clearEditorSelection"} =>
    /\ selection = C3_SelectionCall
    /\ Len(out) = 2
    /\ out[1] = Effect("Events.selectionChanged.emit", C3_SelectionCall)
    /\ out[2].call = "sendGameClientEvent"
    /\ out[2].data[1] = "we:selection"
    /\ JSONparse(out[2].data[2]) = C3_SelectionCall
    /\ JSONparse(gameClientSelection) = selection

\* setEditorSelection has selected a patch after a deletion cleared an addition
C3_Witness ==
  /\ lastCall = <<"setEditorSelection", SelectionPatch(1, 2)>>
  /\ selection = SelectionPatch(1, 2)
  /\ deletedIds # {}
  /\ gameClientSelection = JSONstringify(SelectionPatch(1, 2))

\* C4: a host-emitted 'we:selection' with selection s sets the local selection
\* to s and emits selectionChanged(s), and sends nothing to the game client.
C4_HostSelectionNotEchoed ==
  lastCall[1] = "we:selection" =>
    /\ selection = lastCall[2]
    /\ out = <<Effect("Events.selectionChanged.emit", lastCall[2])>>
    /\ SelectSeq(out, IsGameClientEvent) = <<>>

\* the host selected an addition while the game client was last sent a patch
C4_Witness ==
  /\ lastCall = <<"we:selection", SelectionAddition("a2")>>
  /\ selection = SelectionAddition("a2")
  /\ gameClientSelection = JSONstringify(SelectionPatch(2, 2))

\* C5: with an input controller present, enterPlaytestMode in PLAYTEST and
\* enterEditorMode in EDITOR send nothing and change nothing; the mode
\* messages sent alternate, starting with 'we:enterPlaytestMode', and when
\* every mode switch found a controller the enterFullControl/exitFullControl
\* calls alternate with them.
C5_Alternate ==
  /\ \A i \in 1..Len(modeMsgs) :
       modeMsgs[i] = IF i % 2 = 1 THEN "we:enterPlaytestMode" ELSE "we:exitPlaytestMode"
  /\ ~modeCallWithoutController =>
       /\ Len(ctrlCalls) = Len(modeMsgs)
       /\ \A i \in 1..Len(ctrlCalls) :
            ctrlCalls[i] = IF i % 2 = 1 THEN "inputController.enterFullControl"
                           ELSE "inputController.exitFullControl"

C5_RepeatedCallStep ==
  /\ inputController.present
  /\ \/ lastCall'[1] = "enterPlaytestMode" /\ mode = PLAYTEST
     \/ lastCall'[1] = "enterEditorMode" /\ mode = EDITOR

C5_RepeatedModeSwitchIsNoOp ==
  /\ []C5_Alternate
  /\ [][C5_RepeatedCallStep =>
          /\ out' = <<>>
          /\ ~threw'
          /\ UNCHANGED <<stateVars, envVars, logVars>>]_vars

\* enterPlaytestMode was called again in PLAYTEST after two full round trips
C5_Witness ==
  /\ lastCall[1] = "enterPlaytestMode"
  /\ out = <<>>
  /\ mode = PLAYTEST
  /\ inputController.present
  /\ ~modeCallWithoutController
  /\ Len(modeMsgs) = 3
  /\ Len(ctrlCalls) = 3

\* C6: a loaded map state implies an open map entry, and the map state held
\* is the one loaded for the most recently opened entry, under every
\* interleaving of openMap, closeMap and mapLoaded deliveries.
C6_LoadedMapIsOpenEntry ==
  map.loaded => (mapEntry # NoEntry /\ map.path = mapEntry.path)

\* C7: openMap(entry) clears map, sets mapEntry, resets the history, sends one
\* worldEditorApi.start with the entry's path and switches to WORLD_EDITOR;
\* closeMap clears map and mapEntry (mapName becomes empty), sends one
\* worldEditorApi.stop and switches to THEIA; neither changes mode,
\* selection, editorSelect, editorMode or editorLocal.
C7_AfterOpenOrClose ==
  /\ lastCall[1] = "openMap" =>
       /\ map = NoMap
       /\ mapEntry = lastCall[2]
       /\ out = <<Effect("WEHistory.reset", NoArg),
                  Effect("sendApiMessage", <<"worldEditorApi.start", lastCall[2].path>>),
                  Effect("ShellState.setPersonality", WORLD_EDITOR)>>
       /\ personality = WORLD_EDITOR
  /\ lastCall[1] = "closeMap" =>
       /\ map = NoMap
       /\ mapEntry = NoEntry
       /\ mapName = <<>>
       /\ out = <<Effect("sendApiMessage", <<"worldEditorApi.stop">>),
                  Effect("ShellState.setPersonality", THEIA)>>
       /\ personality = THEIA

C7_OpenCloseEffects ==
  /\ []C7_AfterOpenOrClose
  /\ [][lastCall'[1] \in {"openMap", "closeMap"} =>
          UNCHANGED <<mode, selection, editorSelect, editorMode, editorLocal>>]_vars

\* closeMap ran on an open entry in playtest mode, with a selection and with
\* every editor control away from its initial value
C7_Witness ==
  /\ lastCall[1] = "closeMap"
  /\ pendingLoads = {}
  /\ mode = PLAYTEST
  /\ selection = SelectionAddition("a1")
  /\ editorSelect
  /\ editorMode = ROTATE
  /\ editorLocal

\* C8: with the debug toggle off, ready is true exactly when a 'we:ready' was
\* received since the last closeMap; openMap does not change ready; on
\* 'we:ready' the archetypes refresh is requested only when the collection is
\* not ready; with the toggle on, ready is always true.
C8_ReadyState ==
  /\ ~uiOnly => (ready <=> readyEventSinceClose)
  /\ uiOnly => ready
  /\ lastCall[1] = "we:ready" =>
       out = IF archetypesCollectionReady THEN <<>>
             ELSE <<Effect("GameState.refreshArchetypesCollection", NoArg)>>

C8_ReadyFollowsEvents ==
  /\ []C8_ReadyState
  /\ [][lastCall'[1] = "openMap" => ready' = ready]_vars

\* 'we:ready' arrived with the collection loaded, after a closeMap had reset ready
C8_Witness ==
  /\ ~uiOnly
  /\ lastCall[1] = "we:ready"
  /\ ready
  /\ archetypesCollectionReady
  /\ out = <<>>
  /\ personality = THEIA

\* C9: the four host requests are delivered once to the current map state
\* when map is non-null and dropped, with no state change and no error, when
\* map is null.
C9_RequestStep ==
  \E rq \in MapRequests :
    /\ lastCall' = <<rq.event, rq.request>>
    /\ IF map.loaded
       THEN /\ out' = <<Effect(MapHandlerOf(rq.event), <<map.path, rq.request>>)>>
            /\ map' = handleRequest(map)
       ELSE /\ out' = <<>>
            /\ UNCHANGED stateVars

C9_RequestsReachLoadedMap ==
  /\ [](lastCall[1] \in {rq.event : rq \in MapRequests} => ~threw)
  /\ [][lastCall'[1] \in {rq.event : rq \in MapRequests} => C9_RequestStep]_vars

\* a request was dropped after openMap had cleared a map that handled requests
C9_Witness ==
  /\ lastCall[1] = "we:applyPatchChange"
  /\ out = <<>>
  /\ ~map.loaded
  /\ mapEntry = EntryB
  /\ pendingLoads = {EntryB.path}

\* C10: additionDeleted for id d clears the selection, with selectionChanged
\* and a 'we:selection' NONE message, when the selection is ADDITION d, and
\* does nothing otherwise; right after it the selection does not refer to d.
C10_DeletionStep ==
  IF selection.type = ADDITION /\ selection.id = lastCall'[2]
  THEN /\ selection' = SelectionNone
       /\ out' = <<Effect("Events.selectionChanged.emit", SelectionNone),
                   GameClientEvent("we:selection", JSONstringify(SelectionNone))>>
  ELSE /\ selection' = selection
       /\ out' = <<>>
       /\ gameClientSelection' = gameClientSelection

C10_DeletionClearsItsSelection ==
  /\ [](lastCall[1] = "additionDeleted" =>
          ~(selection.type = ADDITION /\ selection.id = lastCall[2]))
  /\ [][lastCall'[1] = "additionDeleted" => C10_DeletionStep]_vars

\* C10 as stated: the selection never refers to an addition whose deletion
\* event has been processed.
C10_NeverRefersToDeleted ==
  selection.type = ADDITION => selection.id \notin deletedIds

\* the deletion of the selected addition cleared the selection at the game client
C10_Witness ==
  /\ lastCall = <<"additionDeleted", "a2">>
  /\ selection = SelectionNone
  /\ Len(out) = 2
  /\ gameClientSelection = JSONstringify(SelectionNone)

\* C11: destroyInputController resets the local selection to NONE and emits
\* selectionChanged(NONE) with no message to the game client; it destroys the
\* current controller once and clears the reference, so that a further call
\* destroys nothing and raises no error; mode is unchanged.
C11_DestroyStep ==
  /\ selection' = SelectionNone
  /\ out' = <<Effect("Events.selectionChanged.emit", SelectionNone)>>
              \o (IF inputController.present
                  THEN <<Effect("inputController.destroy", NoArg)>>
                  ELSE <<>>)
  /\ inputController' = NoController
  /\ ~threw'
  /\ mode' = mode
  /\ gameClientSelection' = gameClientSelection
  /\ modeMsgs' = modeMsgs

C11_DestroyResetsSelectionOnly ==
  [][lastCall'[1] = "destroyInputController" => C11_DestroyStep]_vars

\* a second destroyInputController found no controller, in playtest mode, the
\* game client still holding the patch it was last sent
C11_Witness ==
  /\ lastCall[1] = "destroyInputController"
  /\ out = <<Effect("Events.selectionChanged.emit", SelectionNone)>>
  /\ ~threw
  /\ ~inputController.present
  /\ mode = PLAYTEST
  /\ ~modeCallWithoutController
  /\ selection = SelectionNone
  /\ gameClientSelection = JSONstringify(SelectionPatch(1, 2))

\* C12: enableTranslation, enableRotation, enableScaling, toggleEditorLocal
\* and setEditorSelect each update their field and then push the controls to
\* the host once, with the current (editorSelect, editorMode, editorLocal);
\* once one of them has run, the triple the host was last sent is the local one.
C12_ControlOps ==
  {"enableTranslation", "enableRotation", "enableScaling", "toggleEditorLocal",
   "setEditorSelect"}

C12_HostHasLocalControls ==
  /\ hostControls # <<>> => hostControls = <<editorSelect, editorMode, editorLocal>>
  /\ lastCall[1] \in C12_ControlOps =>
       /\ hostControls # <<>>
       /\ Len(SelectSeq(out, IsControlsCall)) = 1
       /\ out[Len(out)] = Effect("setWorldEditorControls",
                                 <<editorSelect, editorMode, editorLocal>>)

C12_FieldUpdate ==
  /\ lastCall'[1] = "enableTranslation" =>
       editorMode' = TRANSLATE /\ UNCHANGED <<editorSelect, editorLocal>>
  /\ lastCall'[1] = "enableRotation" =>
       editorMode' = ROTATE /\ UNCHANGED <<editorSelect, editorLocal>>
  /\ lastCall'[1] = "enableScaling" =>
       editorMode' = SCALE /\ UNCHANGED <<editorSelect, editorLocal>>
  /\ lastCall'[1] = "toggleEditorLocal" =>
       editorLocal' = ~editorLocal /\ UNCHANGED <<editorSelect, editorMode>>
  /\ lastCall'[1] = "setEditorSelect" =>
       editorSelect' = lastCall'[2] /\ UNCHANGED <<editorMode, editorLocal>>
  /\ lastCall'[1] \notin C12_ControlOps =>
       UNCHANGED <<editorSelect, editorMode, editorLocal, hostControls>>

C12_ControlsPushedOnce ==
  /\ []C12_HostHasLocalControls
  /\ [][C12_FieldUpdate]_<<lastCall, out, editorSelect, editorMode, editorLocal, hostControls>>

\* the host holds the scaling, local, select-on triple after other handlers ran
C12_Witness ==
  /\ lastCall[1] = "clearEditorSelection"
  /\ mode = PLAYTEST
  /\ hostControls = <<TRUE, SCALE, TRUE>>
  /\ editorSelect
  /\ editorMode = SCALE
  /\ editorLocal

\* C13: showIntro is true only when ready is true and map is non-null, and
\* there it is true iff the intro has not been seen or forceShowIntro is set;
\* closeIntro makes it false and marks the intro seen; the seen flag never
\* returns to false; after a closeIntro, showIntro is true again only after an
\* openIntro that no closeIntro has followed.
C13_ShowIntroState ==
  /\ showIntro => (ready /\ map.loaded)
  /\ (ready /\ map.loaded) => (showIntro <=> (~introSeen \/ forceShowIntro))
  /\ lastCall[1] = "closeIntro" => (~showIntro /\ introSeen)
  /\ lastIntroCall = "closeIntro" => (~showIntro /\ introSeen)

C13_IntroShownUntilClosed ==
  /\ []C13_ShowIntroState
  /\ [][introSeen => introSeen']_vars

\* the intro, already seen, shows again: openIntro ran while no map was
\* loaded and the map has now arrived
C13_Witness ==
  /\ lastCall[1] = "mapLoaded"
  /\ lastIntroCall = "openIntro"
  /\ introSeen
  /\ showIntro
  /\ ~uiOnly

\* C14: enterPlaytestMode and enterEditorMode invoked with no input
\* controller fail without changing mode and without sending
\* 'we:enterPlaytestMode' / 'we:exitPlaytestMode' to the game client.
C14_FailedSwitchChangesNothing ==
  (threw /\ lastCall[1] \in {"enterPlaytestMode", "enterEditorMode"}) =>
    /\ SelectSeq(out, IsModeMsg) = <<>>
    /\ lastCall[1] = "enterPlaytestMode" => mode = EDITOR
    /\ lastCall[1] = "enterEditorMode" => mode = PLAYTEST

====
